---- MODULE Spec2Model ----
(***************************************************************************)
(* Progression, completion and daily-quota logic of the puzzle API:        *)
(* the player routes GET /puzzles, GET /puzzles/:id, GET/PUT/DELETE        *)
(* /progress/:puzzleId over the Puzzle, User and UserProgress collections. *)
(* with the admin routes GET/PUT/DELETE /admin/puzzles and POST            *)
(* /subscription/sync that change what the player routes read.             *)
(*                                                                         *)
(* Every request handler is a sequence of steps, one per awaited database  *)
(* operation: a step executes the operation against the collections and    *)
(* runs the handler's code up to the next await.  Requests of different    *)
(* processes interleave between steps.                                     *)
(***************************************************************************)
EXTENDS Integers, Sequences, FiniteSets, TLC

----------------------------------------------------------------------------
(* Bounds of the model *)

\* The clock runs from 1 to MaxTime.
MaxTime == 3

----------------------------------------------------------------------------
(* Program constants *)

\* One UTC day, in clock ticks (startOfDay.setUTCHours(0, 0, 0, 0)).
DayLen == 2

\* Smallest grid side the Puzzle schema accepts.
GridMin == 2

\* The free tier's number of new puzzles per day.
DailyLimit == 1

\* completedAt's default: null.
Null == -1

Procs == {1, 2, 3, 4}
UserIds == {"u1", "u2"}
PuzzleIds == {"p1", "p2", "p3"}

VARIABLES
  now,       \* the wall clock (new Date())
  users,     \* User collection: user id -> subscriptionTier ("absent": no such user)
  puzzles,   \* Puzzle collection: a set of documents
  progress,  \* UserProgress collection: a set of documents
  req        \* per process: the request in flight, its locals and its response

vars == <<now, users, puzzles, progress, req>>

----------------------------------------------------------------------------
(* Piece lists a client sends: placedPieceIds is an array of strings.       *)

RECURSIVE Distinct(_)
Distinct(n) == IF n = 0 THEN <<>> ELSE Append(Distinct(n - 1), n)

\* n entries, the first one repeated: n - 1 distinct identifiers.
WithDuplicate(n) == <<1>> \o Distinct(n - 1)

TotalMin == GridMin * GridMin

\* Nothing placed, one piece short of a full grid, a full grid, and a full-length
\* list in which one identifier occurs twice.
PieceLists ==
  {Distinct(0), Distinct(TotalMin - 1), Distinct(TotalMin), WithDuplicate(TotalMin)}

\* One piece short of a full grid, and a full grid.
ShortAndFull == {Distinct(TotalMin - 1), Distinct(TotalMin)}

----------------------------------------------------------------------------
(* Documents and query helpers *)

\* A query result that is "a document or null" is a set of at most one document.
The(S) == CHOOSE x \in S : TRUE

\* findOne: null when nothing matches, else one of the matching documents.
FindOne(matches) == IF matches = {} THEN {{}} ELSE {{d} : d \in matches}

Puzzle(id, order, rows, cols, active) ==
  [_id |-> id, levelOrder |-> order, gridRows |-> rows, gridCols |-> cols,
   isActive |-> active]

\* Puzzle.find(...).sort({ levelOrder: 1 })
RECURSIVE SortByLevelOrder(_)
SortByLevelOrder(S) ==
  IF S = {} THEN <<>>
  ELSE LET first == CHOOSE z \in S : \A y \in S : z.levelOrder <= y.levelOrder
       IN  <<first>> \o SortByLevelOrder(S \ {first})

\* Mutant: the fetch finds inactive puzzles too.
ActivePuzzleById_AnyStatus(id) == {z \in puzzles : z._id = id}

\* Puzzle.findOne({ _id: puzzleId, isActive: true })
ActivePuzzleById(id) == {z \in puzzles : z._id = id /\ z.isActive}

\* Puzzle.findById(puzzleId)
PuzzleById(id) == {z \in puzzles : z._id = id}

\* Mutant: an inactive puzzle counts as the predecessor.
PreviousActivePuzzle_AnyStatus(z) ==
  {q \in puzzles : q.levelOrder = z.levelOrder - 1}

\* Puzzle.findOne({ levelOrder: puzzle.levelOrder - 1, isActive: true })
PreviousActivePuzzle(z) ==
  {q \in puzzles : q.levelOrder = z.levelOrder - 1 /\ q.isActive}

\* UserProgress documents of { userId, puzzleId }
ProgressOf(u, l) == {d \in progress : d.userId = u /\ d.puzzleId = l}

\* UserProgress.find({ userId })
ProgressOfUser(u) == {d \in progress : d.userId = u}

\* The authenticate middleware lets a request through for an existing user.
Authenticated == {u \in UserIds : users[u] # "absent"}

----------------------------------------------------------------------------
(* Unlock policy *)

\* Mutant: no level needs the unlock check.
NeedsUnlockCheck_Never(z) == FALSE

\* if (puzzle.levelOrder > 1)
NeedsUnlockCheck(z) == z.levelOrder > 1

\* Mutant: the query leaves out isCompleted: true.
PreviousProgress_AnyRecord(u, prev) ==
  {d \in progress : d.userId = u /\ d.puzzleId = prev._id}

\* UserProgress.findOne({ userId, puzzleId: previousPuzzle._id, isCompleted: true })
PreviousProgress(u, prev) ==
  {d \in progress : d.userId = u /\ d.puzzleId = prev._id /\ d.isCompleted}

\* The unlock check of the fetch over the current collections: the level is
\* of order > 1, an active level of the order below is stored and the user
\* holds no completed record on it.
FetchLocked(u, z) ==
  /\ NeedsUnlockCheck(z)
  /\ \E prev \in PreviousActivePuzzle(z) : PreviousProgress(u, prev) = {}

\* Mutant: the listing leaves out the isCompleted filter.
CompletedLevels_AnyRecord(records, listed) ==
  {z.levelOrder : z \in {y \in listed :
      \E d \in records : d.puzzleId = y._id}}

\* The levelOrder values of the listed puzzles this user has completed.
CompletedLevels(records, listed) ==
  {z.levelOrder : z \in {y \in listed :
      \E d \in records : d.isCompleted /\ d.puzzleId = y._id}}

\* Mutant: the listing leaves out the levelOrder === 1 case.
IsUnlocked_NoFirstLevel(z, completedLevels) ==
  (z.levelOrder - 1) \in completedLevels

\* puzzle.levelOrder === 1 || completedLevels.has(puzzle.levelOrder - 1)
IsUnlocked(z, completedLevels) ==
  z.levelOrder = 1 \/ (z.levelOrder - 1) \in completedLevels

----------------------------------------------------------------------------
(* Quota governor *)

\* startOfDay.setUTCHours(0, 0, 0, 0)
StartOfDay(t) == t - (t % DayLen)

\* Mutant: a user with no stored tier counts as pro.
SubscriptionTier_DefaultPro(u) ==
  IF users[u] \in {"free", "pro"} THEN users[u] ELSE "pro"

\* user?.subscriptionTier || "free"
SubscriptionTier(u) == IF users[u] \in {"free", "pro"} THEN users[u] ELSE "free"

\* Mutant: no record counts as existing progress.
HasExistingProgress_Never(found) == FALSE

\* progress && progress.placedPieceIds.length > 0
HasExistingProgress(found) ==
  found # {} /\ Len(The(found).placedPieceIds) > 0

\* Mutant: only completed records count.
PuzzlesStartedToday_Completed(u, startOfDay) ==
  Cardinality({d \in progress :
                 d.userId = u /\ d.createdAt >= startOfDay /\ d.isCompleted})

\* UserProgress.countDocuments({ userId, createdAt: { $gte: startOfDay } })
PuzzlesStartedToday(u, startOfDay) ==
  Cardinality({d \in progress : d.userId = u /\ d.createdAt >= startOfDay})

\* Mutant: the comparison is strict.
OverDailyLimit_Strict(count) == count > DailyLimit

\* if (puzzlesStartedToday >= 1)
OverDailyLimit(count) == count >= DailyLimit

----------------------------------------------------------------------------
(* Completion evaluator and the upsert *)

\* Mutant: the comparison is strict.
EvalCompleted_Strict(placed, z) == Len(placed) > z.gridRows * z.gridCols

\* placedPieceIds.length >= puzzle.gridRows * puzzle.gridCols
EvalCompleted(placed, z) == Len(placed) >= z.gridRows * z.gridCols

\* Mutant: completedAt is stamped on every save.
CompletedAtFor_Always(isCompleted, ts) == ts

\* completedAt: isCompleted ? new Date() : null
CompletedAtFor(isCompleted, ts) == IF isCompleted THEN ts ELSE Null

\* Mutant: a completed document keeps its completion whatever the save sends.
Updated_Sticky(d, placed, isCompleted, ts) ==
  [d EXCEPT !.placedPieceIds = placed,
            !.isCompleted = d.isCompleted \/ isCompleted,
            !.completedAt = IF d.isCompleted THEN d.completedAt
                            ELSE CompletedAtFor(isCompleted, ts)]

\* Mutant: every save stamps createdAt.
Updated_Restamp(d, placed, isCompleted, ts) ==
  [d EXCEPT !.placedPieceIds = placed, !.isCompleted = isCompleted,
            !.completedAt = CompletedAtFor(isCompleted, ts),
            !.createdAt = ts]

\* The $set of the upsert, applied to an existing document.
Updated(d, placed, isCompleted, ts) ==
  [d EXCEPT !.placedPieceIds = placed, !.isCompleted = isCompleted,
            !.completedAt = CompletedAtFor(isCompleted, ts)]

\* Mutant: the schema sets no timestamps.
CreatedAtFor_Unset(ts) == Null

\* createdAt of an inserted document (timestamps: true).
CreatedAtFor(ts) == ts

\* A fresh ObjectId: one no document of the pair carries.
NewObjectId(u, l) ==
  CHOOSE i \in 1..(Cardinality(ProgressOf(u, l)) + 1) :
    \A d \in ProgressOf(u, l) : d._id # i

\* The document an upsert inserts when nothing matches.
Inserted(id, u, l, placed, isCompleted, ts) ==
  [_id |-> id, userId |-> u, puzzleId |-> l, placedPieceIds |-> placed,
   isCompleted |-> isCompleted, completedAt |-> CompletedAtFor(isCompleted, ts),
   createdAt |-> CreatedAtFor(ts)]

\* Mutant: the collection has no unique index.
UniqueIndexViolated_Never(u, l) == FALSE

\* The compound unique index { userId: 1, puzzleId: 1 } rejects the insert.
UniqueIndexViolated(u, l) == ProgressOf(u, l) # {}

----------------------------------------------------------------------------
(* Requests *)

\* The body of PUT /admin/puzzles/:id: a field the body leaves out is the
\* empty set.
NoUpdates ==
  [gridRows |-> {}, gridCols |-> {}, levelOrder |-> {}, isActive |-> {}]

Idle ==
  [pc |-> "idle", kind |-> "none", userId |-> "none", puzzleId |-> "none",
   placedPieceIds |-> <<>>, puzzle |-> {}, previousPuzzle |-> {},
   progress |-> {}, found |-> <<>>, startOfDay |-> 0, isCompleted |-> FALSE,
   ts |-> 0, status |-> "none", listing |-> <<>>, updates |-> NoUpdates]

Free(p) == req[p].pc \in {"idle", "done"}

New(kind, u, l) == [Idle EXCEPT !.kind = kind, !.userId = u, !.puzzleId = l]

Respond(r, status) == [r EXCEPT !.pc = "done", !.status = status]

Set(p, r) == req' = [req EXCEPT ![p] = r]

----------------------------------------------------------------------------
(* GET /puzzles/:id *)

GetPuzzle_FindPuzzle(p, ids) ==
  /\ Free(p)
  /\ \E u \in Authenticated, l \in ids :
       \E r \in FindOne(ActivePuzzleById(l)) :
         Set(p, IF r = {}
                THEN Respond(New("getPuzzle", u, l), "not_found")
                ELSE [New("getPuzzle", u, l) EXCEPT
                        !.puzzle = r,
                        !.pc = IF NeedsUnlockCheck(The(r))
                               THEN "findPrevious" ELSE "findProgress"])
  /\ UNCHANGED <<now, users, puzzles, progress>>

GetPuzzle_FindPrevious(p) ==
  /\ req[p].pc = "findPrevious"
  /\ \E r \in FindOne(PreviousActivePuzzle(The(req[p].puzzle))) :
       Set(p, [req[p] EXCEPT
                 !.previousPuzzle = r,
                 !.pc = IF r = {} THEN "findProgress" ELSE "findPreviousProgress"])
  /\ UNCHANGED <<now, users, puzzles, progress>>

GetPuzzle_FindPreviousProgress(p) ==
  /\ req[p].pc = "findPreviousProgress"
  /\ Set(p, IF PreviousProgress(req[p].userId, The(req[p].previousPuzzle)) = {}
            THEN Respond(req[p], "level_locked")
            ELSE [req[p] EXCEPT !.pc = "findProgress"])
  /\ UNCHANGED <<now, users, puzzles, progress>>

GetPuzzle_FindProgress(p) ==
  /\ req[p].pc = "findProgress"
  /\ \E r \in FindOne(ProgressOf(req[p].userId, req[p].puzzleId)) :
       Set(p, [req[p] EXCEPT !.progress = r, !.pc = "findUser"])
  /\ UNCHANGED <<now, users, puzzles, progress>>

GetPuzzle_FindUser(p) ==
  /\ req[p].pc = "findUser"
  /\ Set(p, IF /\ SubscriptionTier(req[p].userId) = "free"
               /\ ~HasExistingProgress(req[p].progress)
            THEN [req[p] EXCEPT !.startOfDay = StartOfDay(now), !.pc = "countToday"]
            ELSE Respond(req[p], "ok"))
  /\ UNCHANGED <<now, users, puzzles, progress>>

GetPuzzle_CountToday(p) ==
  /\ req[p].pc = "countToday"
  /\ Set(p, IF OverDailyLimit(PuzzlesStartedToday(req[p].userId, req[p].startOfDay))
            THEN Respond(req[p], "daily_limit")
            ELSE Respond(req[p], "ok"))
  /\ UNCHANGED <<now, users, puzzles, progress>>

----------------------------------------------------------------------------
(* GET /puzzles *)

ListPuzzles_FindPuzzles(p) ==
  /\ Free(p)
  /\ \E u \in Authenticated :
       Set(p, [New("listPuzzles", u, "none") EXCEPT
                 !.found = SortByLevelOrder({z \in puzzles : z.isActive}),
                 !.pc = "findAllProgress"])
  /\ UNCHANGED <<now, users, puzzles, progress>>

\* One entry of puzzlesWithStatus.
ListEntry(z, records, completedLevels) ==
  LET mine == {d \in records : d.puzzleId = z._id}
  IN  [id |-> z._id, levelOrder |-> z.levelOrder,
       isUnlocked |-> IsUnlocked(z, completedLevels),
       isCompleted |-> IF mine = {} THEN FALSE ELSE The(mine).isCompleted,
       progress |-> IF mine = {} THEN {} ELSE {The(mine)}]

ListPuzzles_FindProgress(p) ==
  /\ req[p].pc = "findAllProgress"
  /\ LET records == ProgressOfUser(req[p].userId)
         found == req[p].found
         listed == {found[i] : i \in 1..Len(found)}
         completedLevels == CompletedLevels(records, listed)
     IN  Set(p, Respond([req[p] EXCEPT
                   !.listing = [i \in 1..Len(found) |->
                                  ListEntry(found[i], records, completedLevels)]],
                 "ok"))
  /\ UNCHANGED <<now, users, puzzles, progress>>

----------------------------------------------------------------------------
(* GET /progress/:puzzleId *)

GetProgress(p, ids) ==
  /\ Free(p)
  /\ \E u \in Authenticated, l \in ids :
       \E r \in FindOne(ProgressOf(u, l)) :
         Set(p, Respond([New("getProgress", u, l) EXCEPT !.progress = r], "ok"))
  /\ UNCHANGED <<now, users, puzzles, progress>>

----------------------------------------------------------------------------
(* PUT /progress/:puzzleId *)

PutProgress_FindPuzzle(p, ids, lists) ==
  /\ Free(p)
  /\ \E u \in Authenticated, l \in ids, placed \in lists :
       \E r \in FindOne(PuzzleById(l)) :
         Set(p, IF r = {}
                THEN Respond(New("putProgress", u, l), "not_found")
                ELSE [New("putProgress", u, l) EXCEPT
                        !.placedPieceIds = placed,
                        !.puzzle = r,
                        !.isCompleted = EvalCompleted(placed, The(r)),
                        !.ts = now,
                        !.pc = "upsert"])
  /\ UNCHANGED <<now, users, puzzles, progress>>

\* findOneAndUpdate, a document matches: it is updated in place, atomically.
\* Nothing matches: the operation goes on to insert.
PutProgress_Upsert(p) ==
  /\ req[p].pc = "upsert"
  /\ LET r == req[p]
         matches == ProgressOf(r.userId, r.puzzleId)
     IN  IF matches = {}
         THEN /\ Set(p, [r EXCEPT !.pc = "insert"])
              /\ UNCHANGED progress
         ELSE \E d \in matches :
                LET new == Updated(d, r.placedPieceIds, r.isCompleted, r.ts)
                IN  /\ progress' = (progress \ {d}) \cup {new}
                    /\ Set(p, Respond([r EXCEPT !.progress = {new}], "ok"))
  /\ UNCHANGED <<now, users, puzzles>>

\* The insert of the upsert.  The unique index is checked at the insert: when
\* another request has inserted the pair meanwhile the insert is rejected, and
\* the store either retries the operation as an update or reports the
\* duplicate key, which the handler answers with a 500.
PutProgress_Insert(p) ==
  /\ req[p].pc = "insert"
  /\ LET r == req[p]
     IN  IF UniqueIndexViolated(r.userId, r.puzzleId)
         THEN /\ \E retried \in BOOLEAN :
                   Set(p, IF retried THEN [r EXCEPT !.pc = "upsert"]
                                     ELSE Respond(r, "error"))
              /\ UNCHANGED progress
         ELSE LET new == Inserted(NewObjectId(r.userId, r.puzzleId), r.userId,
                                  r.puzzleId, r.placedPieceIds, r.isCompleted, r.ts)
              IN  /\ progress' = progress \cup {new}
                  /\ Set(p, Respond([r EXCEPT !.progress = {new}], "ok"))
  /\ UNCHANGED <<now, users, puzzles>>

----------------------------------------------------------------------------
(* DELETE /progress/:puzzleId *)

\* UserProgress.findOneAndDelete({ userId, puzzleId }): removes one matching
\* document and returns it (the handler drops the returned value).
DeleteProgress(p, ids) ==
  /\ Free(p)
  /\ \E u \in Authenticated, l \in ids :
       \E r \in FindOne(ProgressOf(u, l)) :
         /\ progress' = progress \ r
         /\ Set(p, Respond([New("deleteProgress", u, l) EXCEPT !.progress = r], "ok"))
  /\ UNCHANGED <<now, users, puzzles>>

----------------------------------------------------------------------------
(* Admin routes: GET /admin/puzzles, GET /admin/puzzles/:id and             *)
(* PUT /admin/puzzles/:id.  The requests are those of an admin account.     *)

Admin == "admin"

\* Puzzle.find().sort({ levelOrder: 1 }): every puzzle, inactive ones too.
AdminListPuzzles(p) ==
  /\ Free(p)
  /\ Set(p, Respond([New("adminListPuzzles", Admin, "none") EXCEPT
                       !.found = SortByLevelOrder(puzzles)], "ok"))
  /\ UNCHANGED <<now, users, puzzles, progress>>

AdminGetPuzzle(p, ids) ==
  /\ Free(p)
  /\ \E l \in ids :
       \E r \in FindOne(PuzzleById(l)) :
         Set(p, IF r = {}
                THEN Respond(New("adminGetPuzzle", Admin, l), "not_found")
                ELSE Respond([New("adminGetPuzzle", Admin, l) EXCEPT
                                !.puzzle = r], "ok"))
  /\ UNCHANGED <<now, users, puzzles, progress>>

SetActive(b) == [NoUpdates EXCEPT !.isActive = {b}]

SetLevelOrder(n) == [NoUpdates EXCEPT !.levelOrder = {n}]

SetGridCols(n) == [NoUpdates EXCEPT !.gridCols = {n}]

\* updates.levelOrder && updates.levelOrder !== puzzle.levelOrder
LevelOrderChanged(z, up) ==
  \E n \in up.levelOrder : n # 0 /\ n # z.levelOrder

\* Puzzle.findOne({ levelOrder: updates.levelOrder, _id: { $ne: puzzle._id } })
ExistingLevel(z, up) ==
  {q \in puzzles : q.levelOrder \in up.levelOrder /\ q._id # z._id}

\* The assignments of the fields the body holds.
ApplyUpdates(z, up) ==
  [z EXCEPT
     !.gridRows = IF up.gridRows = {} THEN @ ELSE The(up.gridRows),
     !.gridCols = IF up.gridCols = {} THEN @ ELSE The(up.gridCols),
     !.levelOrder = IF up.levelOrder = {} THEN @ ELSE The(up.levelOrder),
     !.isActive = IF up.isActive = {} THEN @ ELSE The(up.isActive)]

\* puzzle.save() writes the paths whose value the handler changed onto the
\* stored document of that _id.
Saved(stored, loaded, edited) ==
  [f \in DOMAIN stored |->
     IF edited[f] # loaded[f] THEN edited[f] ELSE stored[f]]

\* The unique index on levelOrder rejects a second puzzle of that order.
LevelOrderTaken(z) ==
  \E q \in puzzles : q._id # z._id /\ q.levelOrder = z.levelOrder

AdminUpdate_FindPuzzle(p, ids, bodies) ==
  /\ Free(p)
  /\ \E l \in ids, up \in bodies :
       \E r \in FindOne(PuzzleById(l)) :
         Set(p, IF r = {}
                THEN Respond(New("adminUpdatePuzzle", Admin, l), "not_found")
                ELSE [New("adminUpdatePuzzle", Admin, l) EXCEPT
                        !.puzzle = r,
                        !.updates = up,
                        !.pc = IF LevelOrderChanged(The(r), up)
                               THEN "checkLevelOrder" ELSE "save"])
  /\ UNCHANGED <<now, users, puzzles, progress>>

AdminUpdate_CheckLevelOrder(p) ==
  /\ req[p].pc = "checkLevelOrder"
  /\ Set(p, IF ExistingLevel(The(req[p].puzzle), req[p].updates) # {}
            THEN Respond(req[p], "conflict")
            ELSE [req[p] EXCEPT !.pc = "save"])
  /\ UNCHANGED <<now, users, puzzles, progress>>

\* puzzle.save() touches no UserProgress document.  It fails when nothing is
\* stored under the _id any more or when the unique index on levelOrder
\* rejects the write; a document with no changed path is not written.
AdminUpdate_Save(p) ==
  /\ req[p].pc = "save"
  /\ LET loaded == The(req[p].puzzle)
         edited == ApplyUpdates(loaded, req[p].updates)
         stored == PuzzleById(loaded._id)
     IN  IF edited = loaded
         THEN /\ Set(p, Respond(req[p], "ok"))
              /\ UNCHANGED puzzles
         ELSE IF stored = {}
         THEN /\ Set(p, Respond(req[p], "error"))
              /\ UNCHANGED puzzles
         ELSE LET written == Saved(The(stored), loaded, edited)
              IN  IF LevelOrderTaken(written)
                  THEN /\ Set(p, Respond(req[p], "error"))
                       /\ UNCHANGED puzzles
                  ELSE /\ puzzles' = (puzzles \ stored) \cup {written}
                       /\ Set(p, Respond([req[p] EXCEPT !.puzzle = {edited}], "ok"))
  /\ UNCHANGED <<now, users, progress>>

----------------------------------------------------------------------------
(* DELETE /admin/puzzles/:id *)

AdminDelete_FindPuzzle(p, ids) ==
  /\ Free(p)
  /\ \E l \in ids :
       \E r \in FindOne(PuzzleById(l)) :
         Set(p, IF r = {}
                THEN Respond(New("adminDeletePuzzle", Admin, l), "not_found")
                ELSE [New("adminDeletePuzzle", Admin, l) EXCEPT
                        !.puzzle = r, !.pc = "deleteImage"])
  /\ UNCHANGED <<now, users, puzzles, progress>>

\* await deleteImage(puzzle.imageKey): no collection is touched; when the
\* storage call throws, the handler answers 500 and deletes nothing.
AdminDelete_DeleteImage(p) ==
  /\ req[p].pc = "deleteImage"
  /\ \E sent \in BOOLEAN :
       Set(p, IF sent THEN [req[p] EXCEPT !.pc = "deleteProgress"]
              ELSE Respond(req[p], "error"))
  /\ UNCHANGED <<now, users, puzzles, progress>>

\* UserProgress.deleteMany({ puzzleId: puzzle._id })
AdminDelete_DeleteProgress(p) ==
  /\ req[p].pc = "deleteProgress"
  /\ progress' = {d \in progress : d.puzzleId # req[p].puzzleId}
  /\ Set(p, [req[p] EXCEPT !.pc = "deletePuzzle"])
  /\ UNCHANGED <<now, users, puzzles>>

\* puzzle.deleteOne()
AdminDelete_DeletePuzzle(p) ==
  /\ req[p].pc = "deletePuzzle"
  /\ puzzles' = puzzles \ PuzzleById(req[p].puzzleId)
  /\ Set(p, Respond(req[p], "ok"))
  /\ UNCHANGED <<now, users, progress>>

----------------------------------------------------------------------------
(* POST /subscription/sync *)

\* User.findByIdAndUpdate(userId, { subscriptionTier: isPro ? "pro" : "free" })
SyncSubscription(p) ==
  /\ Free(p)
  /\ \E u \in Authenticated, isPro \in BOOLEAN :
       /\ users' = [users EXCEPT ![u] = IF isPro THEN "pro" ELSE "free"]
       /\ Set(p, Respond(New("syncSubscription", u, "none"), "ok"))
  /\ UNCHANGED <<now, puzzles, progress>>

----------------------------------------------------------------------------
(* The clock *)

Tick ==
  /\ now < MaxTime
  /\ now' = now + 1
  /\ UNCHANGED <<users, puzzles, progress, req>>

----------------------------------------------------------------------------
(* Specifications *)

\* A catalog of three active levels in order, each a GridMin x GridMin grid.
Catalog ==
  {Puzzle("p1", 1, GridMin, GridMin, TRUE),
   Puzzle("p2", 2, GridMin, GridMin, TRUE),
   Puzzle("p3", 3, GridMin, GridMin, TRUE)}

Levels(n) == {z \in Catalog : z.levelOrder <= n}

InitStore ==
  /\ now = 1
  /\ progress = {}
  /\ req = [p \in Procs |-> Idle]

\* The progress router under concurrent requests: two requests in flight, one
\* free user, one level in the catalog ("p2" is the id of no puzzle).
Init ==
  /\ InitStore
  /\ users = [u \in UserIds |-> IF u = "u1" THEN "free" ELSE "absent"]
  /\ puzzles = Levels(1)

ProgressStep(p, ids, lists) ==
  \/ GetProgress(p, ids)
  \/ PutProgress_FindPuzzle(p, ids, lists)
  \/ PutProgress_Upsert(p)
  \/ PutProgress_Insert(p)
  \/ DeleteProgress(p, ids)

Next == Tick \/ \E p \in {1, 2} : ProgressStep(p, {"p1", "p2"}, ShortAndFull)

Spec == Init /\ [][Next]_vars

PuzzlesStep(p, ids) ==
  \/ GetPuzzle_FindPuzzle(p, ids)
  \/ GetPuzzle_FindPrevious(p)
  \/ GetPuzzle_FindPreviousProgress(p)
  \/ GetPuzzle_FindProgress(p)
  \/ GetPuzzle_FindUser(p)
  \/ GetPuzzle_CountToday(p)
  \/ ListPuzzles_FindPuzzles(p)
  \/ ListPuzzles_FindProgress(p)

\* Both routers, one request at a time, over days: one free user and two levels
\* ("p3" is the id of no puzzle).
InitSeq ==
  /\ InitStore
  /\ users = [u \in UserIds |-> IF u = "u1" THEN "free" ELSE "absent"]
  /\ puzzles = Levels(2)

NextSeq ==
  \/ Tick
  \/ PuzzlesStep(1, PuzzleIds)
  \/ ProgressStep(1, PuzzleIds, PieceLists)

SpecSeq == InitSeq /\ [][NextSeq]_vars

\* Both routers, one request at a time, within one instant: a free and a pro
\* user over the three levels.
InitUnlock ==
  /\ InitStore
  /\ users = [u \in UserIds |-> IF u = "u1" THEN "free" ELSE "pro"]
  /\ puzzles = Levels(3)

NextUnlock ==
  \/ PuzzlesStep(1, PuzzleIds)
  \/ ProgressStep(1, PuzzleIds, ShortAndFull)

SpecUnlock == InitUnlock /\ [][NextUnlock]_vars

AdminStep(p, ids, bodies) ==
  \/ AdminListPuzzles(p)
  \/ AdminGetPuzzle(p, ids)
  \/ AdminUpdate_FindPuzzle(p, ids, bodies)
  \/ AdminUpdate_CheckLevelOrder(p)
  \/ AdminUpdate_Save(p)

\* Bodies that hide or show a level and move it to another order.
CatalogUpdates ==
  {SetActive(TRUE), SetActive(FALSE), SetLevelOrder(2), SetLevelOrder(4)}

\* The player routes and the admin routes, one request at a time, within one
\* instant: a free user over three levels an admin hides, shows and reorders.
InitCatalog ==
  /\ InitStore
  /\ users = [u \in UserIds |-> IF u = "u1" THEN "free" ELSE "absent"]
  /\ puzzles = Levels(3)

NextCatalog ==
  \/ PuzzlesStep(1, PuzzleIds)
  \/ ProgressStep(1, PuzzleIds, ShortAndFull)
  \/ AdminStep(1, PuzzleIds, CatalogUpdates)

SpecCatalog == InitCatalog /\ [][NextCatalog]_vars

\* The player routes and the subscription sync, one request at a time, over
\* days: a user whose document holds no subscriptionTier until a sync sets it.
InitTier ==
  /\ InitStore
  /\ users = [u \in UserIds |-> IF u = "u1" THEN "unset" ELSE "absent"]
  /\ puzzles = Levels(2)

NextTier ==
  \/ Tick
  \/ PuzzlesStep(1, PuzzleIds)
  \/ ProgressStep(1, PuzzleIds, ShortAndFull)
  \/ SyncSubscription(1)

SpecTier == InitTier /\ [][NextTier]_vars

\* Bodies that resize a level's grid, and one that moves a level.
GridUpdates ==
  {SetGridCols(GridMin), SetGridCols(GridMin + 1), SetLevelOrder(2)}

\* The progress routes and the admin routes, one request at a time, within
\* one instant: a free user over two levels an admin resizes.
InitGrid ==
  /\ InitStore
  /\ users = [u \in UserIds |-> IF u = "u1" THEN "free" ELSE "absent"]
  /\ puzzles = Levels(2)

NextGrid ==
  \/ ProgressStep(1, {"p1", "p2"}, ShortAndFull)
  \/ AdminStep(1, {"p1", "p2"}, GridUpdates)

SpecGrid == InitGrid /\ [][NextGrid]_vars

FetchStep(p, ids) ==
  \/ GetPuzzle_FindPuzzle(p, ids)
  \/ GetPuzzle_FindPrevious(p)
  \/ GetPuzzle_FindPreviousProgress(p)
  \/ GetPuzzle_FindProgress(p)
  \/ GetPuzzle_FindUser(p)
  \/ GetPuzzle_CountToday(p)

SaveStep(p, ids, lists) ==
  \/ PutProgress_FindPuzzle(p, ids, lists)
  \/ PutProgress_Upsert(p)
  \/ PutProgress_Insert(p)

\* Levels 1 and 2 and a level of order 4: with no level of order 3, a user
\* with no record may start "p1" and "p3".
RaceCatalog ==
  {Puzzle("p1", 1, GridMin, GridMin, TRUE),
   Puzzle("p2", 2, GridMin, GridMin, TRUE),
   Puzzle("p3", 4, GridMin, GridMin, TRUE)}

\* Two fetches and two saves of one free user in flight at once, within one
\* UTC day.
InitRace ==
  /\ InitStore
  /\ users = [u \in UserIds |-> IF u = "u1" THEN "free" ELSE "absent"]
  /\ puzzles = RaceCatalog

NextRace ==
  \/ \E p \in {1, 2} : FetchStep(p, PuzzleIds)
  \/ \E p \in {3, 4} : SaveStep(p, {"p1", "p3"}, {Distinct(TotalMin - 1)})

SpecRace == InitRace /\ [][NextRace]_vars

AdminDeleteStep(p, ids) ==
  \/ AdminDelete_FindPuzzle(p, ids)
  \/ AdminDelete_DeleteImage(p)
  \/ AdminDelete_DeleteProgress(p)
  \/ AdminDelete_DeletePuzzle(p)

\* An admin deleting puzzles while two saves of a free user are in flight,
\* within one instant.
InitDelete ==
  /\ InitStore
  /\ users = [u \in UserIds |-> IF u = "u1" THEN "free" ELSE "absent"]
  /\ puzzles = Levels(2)

NextDelete ==
  \/ AdminDeleteStep(1, {"p1", "p2"})
  \/ \E p \in {2, 3} : SaveStep(p, {"p1", "p2"}, ShortAndFull)

SpecDelete == InitDelete /\ [][NextDelete]_vars

----------------------------------------------------------------------------
(* Properties *)

Done(p, kind) == req[p].pc = "done" /\ req[p].kind = kind

\* The user of a request has a completed record on level l.
HasCompleted(u, l) ==
  \E d \in progress : d.userId = u /\ d.puzzleId = l /\ d.isCompleted

\* C1: a fetch of an active level of order n > 1 whose order n-1 level is
\* active ends with level_locked exactly when the user has no completed
\* record on that predecessor; no other level's completion matters.
C1_LockedIffPredecessorNotCompleted ==
  \A p \in Procs :
    Done(p, "getPuzzle") =>
      \A z \in puzzles, prev \in puzzles :
        ( /\ z._id = req[p].puzzleId /\ z.isActive /\ z.levelOrder > 1
          /\ prev.levelOrder = z.levelOrder - 1 /\ prev.isActive )
        => ( req[p].status = "level_locked"
               <=> ~HasCompleted(req[p].userId, prev._id) )

\* C1 witness: level 3 is fetched and not locked by a user who completed
\* level 2 and holds no completed record on level 1.
C1_Witness ==
  /\ Done(1, "getPuzzle") /\ req[1].puzzleId = "p3"
  /\ req[1].status # "level_locked"
  /\ HasCompleted(req[1].userId, "p2")
  /\ ~HasCompleted(req[1].userId, "p1")
  /\ \E u \in UserIds : u # req[1].userId /\ ~HasCompleted(u, "p2")

\* C2: the listing reports every level of order 1 unlocked, and a fetch of a
\* level of order 1 never ends with level_locked.
C2_FirstLevelAlwaysUnlocked ==
  \A p \in Procs :
    /\ Done(p, "listPuzzles") =>
         \A i \in 1..Len(req[p].listing) :
           req[p].listing[i].levelOrder = 1 => req[p].listing[i].isUnlocked
    /\ Done(p, "getPuzzle") =>
         \A z \in puzzles :
           (z._id = req[p].puzzleId /\ z.levelOrder = 1)
             => req[p].status # "level_locked"

\* C2 witness: a listing for a user with no completed record shows level 1
\* unlocked and level 2 locked.
C2_Witness ==
  /\ Done(1, "listPuzzles")
  /\ \A l \in PuzzleIds : ~HasCompleted(req[1].userId, l)
  /\ Len(req[1].listing) >= 2
  /\ req[1].listing[1].levelOrder = 1 /\ req[1].listing[1].isUnlocked
  /\ ~req[1].listing[2].isUnlocked

SamePair(d, e) == d.userId = e.userId /\ d.puzzleId = e.puzzleId

\* Process p's save writes the pair of document d in this step.
SaveWrites(p, d) ==
  /\ req[p].pc \in {"upsert", "insert"} /\ req'[p].pc = "done"
  /\ req'[p].status = "ok"
  /\ req[p].userId = d.userId /\ req[p].puzzleId = d.puzzleId

\* The number of pieces process p's save sent fills the grid its save read.
FillsGrid(p) ==
  \A z \in req[p].puzzle :
    Len(req[p].placedPieceIds) >= z.gridRows * z.gridCols

\* C3 as stated: while a record of a pair exists, once completed it stays
\* completed with completedAt set, whatever a later save sends.
C3_CompletionNeverRevoked ==
  [][\A d \in progress : d.isCompleted =>
       \A e \in progress' : SamePair(d, e) =>
         (e.isCompleted /\ e.completedAt # Null)]_vars

\* C3 amended: a save on a completed record leaves it completed, with
\* completedAt set, exactly when the save sends at least rows*cols pieces;
\* with fewer pieces it sets completed to false and completedAt to null.
\* Nothing but a save changes a completed record that stays in the store.
C3_CompletionFollowsLatestSave ==
  [][\A d \in progress : d.isCompleted =>
       \A e \in progress' : SamePair(d, e) =>
         \/ e = d
         \/ \E p \in Procs :
              /\ SaveWrites(p, d)
              /\ e.isCompleted <=> FillsGrid(p)
              /\ (e.completedAt # Null) <=> FillsGrid(p)]_vars

\* C3 witness: a save with fewer pieces than the grid is about to update a
\* completed record.
C3_Witness ==
  /\ req[1].pc = "upsert" /\ ~req[1].isCompleted
  /\ HasCompleted(req[1].userId, req[1].puzzleId)

\* C4: a save that keeps a completed record completed leaves its completedAt
\* as the first completing save stamped it.
C4_CompletedAtKept ==
  [][\A d \in progress, e \in progress' :
       (SamePair(d, e) /\ d.isCompleted /\ e.isCompleted)
         => e.completedAt = d.completedAt]_vars

\* C5: the record a save returns is completed exactly when the number of
\* pieces sent is at least gridRows*gridCols of the puzzle that save read.
C5_CompletedIffGridFilled ==
  \A p \in Procs :
    (Done(p, "putProgress") /\ req[p].status = "ok") =>
      /\ req[p].progress # {}
      /\ \A d \in req[p].progress, z \in req[p].puzzle :
           /\ Len(req[p].placedPieceIds) >= z.gridRows * z.gridCols
                => d.isCompleted
           /\ Len(req[p].placedPieceIds) <= z.gridRows * z.gridCols - 1
                => ~d.isCompleted

\* C5 witness: a save of exactly rows*cols pieces returned a completed record.
C5_Witness ==
  /\ Done(1, "putProgress") /\ req[1].status = "ok"
  /\ \E d \in req[1].progress, z \in req[1].puzzle :
       /\ Len(req[1].placedPieceIds) = z.gridRows * z.gridCols
       /\ d.isCompleted

\* C6: every record has completedAt set exactly when it is completed.
C6_CompletedAtIffCompleted ==
  \A d \in progress : (d.completedAt # Null) <=> d.isCompleted

\* C6 witness: two saves of the same pair are in flight at once, one completing
\* and one not, over a completed record.
C6_Witness ==
  /\ req[1].pc = "upsert" /\ req[2].pc = "upsert"
  /\ req[1].userId = req[2].userId /\ req[1].puzzleId = req[2].puzzleId
  /\ req[1].isCompleted /\ ~req[2].isCompleted
  /\ \E d \in ProgressOf(req[1].userId, req[1].puzzleId) :
       d.isCompleted /\ d.completedAt # Null

\* The records of user u created on the current UTC day.
CreatedToday(u) ==
  {d \in progress : d.userId = u /\ d.createdAt >= StartOfDay(now)}

\* A fetch by a free user that got past the unlock check.
FreeFetch(p) ==
  /\ Done(p, "getPuzzle") /\ req[p].status \in {"ok", "daily_limit"}
  /\ SubscriptionTier(req[p].userId) = "free"

\* A fetch by a free user of a level they hold no record on, answered on the
\* current UTC day.
FreeFetchOfNewLevelToday(p) ==
  /\ FreeFetch(p)
  /\ ProgressOf(req[p].userId, req[p].puzzleId) = {}
  /\ req[p].startOfDay = StartOfDay(now)

\* C7: one request at a time, a free user's fetch of a level they hold no
\* record on is allowed when they created no record today and is denied with
\* daily_limit when they created one today.
C7_OneNewLevelPerDay ==
  \A p \in Procs :
    FreeFetchOfNewLevelToday(p) =>
      ( req[p].status = "daily_limit" <=> CreatedToday(req[p].userId) # {} )

\* C7 witness: the fetch of a never-touched level is denied after a record was
\* created on another level the same day.
C7_Witness ==
  /\ FreeFetchOfNewLevelToday(1) /\ req[1].status = "daily_limit"
  /\ \E d \in CreatedToday(req[1].userId) : d.puzzleId # req[1].puzzleId

\* C8 as stated: a free user's fetch of a level they hold a record on, even
\* one with no placed piece, never ends with daily_limit.
C8_AnyRecordBypassesQuota ==
  \A p \in Procs :
    (FreeFetch(p) /\ req[p].progress # {}) => req[p].status # "daily_limit"

\* C8 amended: a free user's fetch of a level they hold a record on with at
\* least one placed piece never ends with daily_limit.
C8_RecordWithPiecesBypassesQuota ==
  \A p \in Procs :
    (FreeFetch(p) /\ \E d \in req[p].progress : Len(d.placedPieceIds) > 0)
      => req[p].status # "daily_limit"

\* C8 witness: the fetch is allowed although the user created more records
\* today than the daily limit.
C8_Witness ==
  /\ FreeFetch(1) /\ req[1].status = "ok"
  /\ \E d \in req[1].progress : Len(d.placedPieceIds) > 0
  /\ Cardinality(CreatedToday(req[1].userId)) > DailyLimit

\* C9: the store holds at most one record per (userId, puzzleId).
C9_OneRecordPerPair ==
  \A d \in progress, e \in progress : SamePair(d, e) => d = e

\* C9 witness: two first saves of one pair raced, one inserted the record and
\* the other's insert was rejected.
C9_Witness ==
  \E p \in Procs, q \in Procs :
    /\ p # q
    /\ Done(p, "putProgress") /\ req[p].status = "ok"
    /\ Done(q, "putProgress") /\ req[q].status = "error"
    /\ req[p].userId = req[q].userId /\ req[p].puzzleId = req[q].puzzleId
    /\ req[p].progress \subseteq progress
    /\ Cardinality(ProgressOf(req[p].userId, req[p].puzzleId)) = 1

\* Process p answers a request of this kind in this step.
Answers(p, kind) ==
  /\ req'[p] # req[p]
  /\ req'[p].pc = "done" /\ req'[p].kind = kind /\ req'[p].status = "ok"

\* C10: a reset leaves no record of the pair and a get then returns none; the
\* save that creates the record anew stamps createdAt with the clock that
\* save read, and the new record's pieces and completion are those of that save.
C10_ResetThenFreshRecord ==
  [][\A p \in Procs :
       /\ Answers(p, "deleteProgress") =>
            \A d \in progress' :
              ~(d.userId = req'[p].userId /\ d.puzzleId = req'[p].puzzleId)
       /\ Answers(p, "getProgress") =>
            ( req'[p].progress = {} <=>
                \A d \in progress :
                  ~(d.userId = req'[p].userId /\ d.puzzleId = req'[p].puzzleId) )
       /\ (Free(p) /\ req'[p].pc = "upsert") => req'[p].ts = now
       /\ (req[p].pc = "insert" /\ Answers(p, "putProgress")) =>
            \E e \in progress' \ progress :
              /\ progress' = progress \cup {e}
              /\ e.userId = req[p].userId /\ e.puzzleId = req[p].puzzleId
              /\ e.createdAt = req[p].ts
              /\ e.placedPieceIds = req[p].placedPieceIds
              /\ e.isCompleted <=> FillsGrid(p)
              /\ e.completedAt = IF FillsGrid(p) THEN req[p].ts ELSE Null]_vars

\* C10 witness: one request deleted a record and returned, and a later save
\* holds a record of the same pair with a later createdAt.
C10_Witness ==
  \E p \in Procs, q \in Procs :
    /\ Done(p, "deleteProgress") /\ Done(q, "putProgress")
    /\ req[q].status = "ok"
    /\ req[p].userId = req[q].userId /\ req[p].puzzleId = req[q].puzzleId
    /\ req[q].progress \subseteq progress
    /\ \E d \in req[p].progress, e \in req[q].progress :
         e.createdAt > d.createdAt /\ e.createdAt = req[q].ts

\* C11: a save for a level of order n > 1 whose active order n-1 level the
\* user has not completed is answered level_locked and leaves no record of
\* the pair written by it.
C11_SaveOfLockedLevelRejected ==
  \A p \in Procs :
    Done(p, "putProgress") =>
      \A z \in puzzles, prev \in puzzles :
        ( /\ z._id = req[p].puzzleId /\ z.levelOrder > 1
          /\ prev.levelOrder = z.levelOrder - 1 /\ prev.isActive
          /\ ~HasCompleted(req[p].userId, prev._id) )
        => ( /\ req[p].status = "level_locked"
             /\ req[p].progress = {} )

\* C12: one request at a time, a free user never holds two records created on
\* the same UTC day.
C12_FreeUserOneRecordPerDay ==
  \A d \in progress, e \in progress :
    ( /\ d.userId = e.userId /\ d # e
      /\ SubscriptionTier(d.userId) = "free" )
    => StartOfDay(d.createdAt) # StartOfDay(e.createdAt)

\* The levels a player may see, and those of them at order n.
ActiveLevels == {z \in puzzles : z.isActive}

ActiveAt(n) == {z \in ActiveLevels : z.levelOrder = n}

\* C13: a fetch of an active level of order n > 1 with no active level of
\* order n-1, none stored or an inactive one, reads no predecessor record and
\* is answered by the quota check: ok or daily_limit, never level_locked.
C13_GapSkipsUnlockCheck ==
  \A p \in Procs :
    Done(p, "getPuzzle") =>
      \A z \in ActiveLevels :
        ( /\ z._id = req[p].puzzleId /\ z.levelOrder > 1
          /\ ActiveAt(z.levelOrder - 1) = {} )
          => ( /\ req[p].status \in {"ok", "daily_limit"}
               /\ req[p].previousPuzzle = {} )

\* C13 witness: level 3 is fetched and allowed while the level of order 2 is
\* inactive, level 1 is active and the user has completed no level.
C13_Witness ==
  /\ Done(1, "getPuzzle") /\ req[1].status = "ok"
  /\ \E z \in ActiveAt(3) : z._id = req[1].puzzleId
  /\ \E q \in puzzles : q.levelOrder = 2 /\ ~q.isActive
  /\ ActiveAt(1) # {}
  /\ \A l \in PuzzleIds : ~HasCompleted(req[1].userId, l)

\* The elements of a sequence.
Range(s) == {s[i] : i \in 1..Len(s)}

\* The levelOrder of the entries of a sequence ascends.
Ascending(s) ==
  \A i \in 1..Len(s), j \in 1..Len(s) :
    i < j => s[i].levelOrder < s[j].levelOrder

\* C14: the player listing holds exactly the active levels in ascending
\* levelOrder; a player fetch of an id that is no active level is answered
\* not_found with no predecessor, record, user or count read; the admin get
\* returns the puzzle of an id whatever its isActive, and the admin list
\* returns every puzzle in ascending levelOrder.
C14_InactiveNeverShownToPlayers ==
  \A p \in Procs :
    /\ Done(p, "listPuzzles") =>
         /\ {e.id : e \in Range(req[p].listing)}
              = {z._id : z \in ActiveLevels}
         /\ Len(req[p].listing) = Cardinality(ActiveLevels)
         /\ Ascending(req[p].listing)
    /\ ( /\ Done(p, "getPuzzle")
         /\ \A z \in ActiveLevels : z._id # req[p].puzzleId ) =>
         req[p] = Respond(New("getPuzzle", req[p].userId, req[p].puzzleId),
                          "not_found")
    /\ Done(p, "adminGetPuzzle") =>
         /\ req[p].puzzle = {z \in puzzles : z._id = req[p].puzzleId}
         /\ req[p].status = IF req[p].puzzle = {} THEN "not_found" ELSE "ok"
    /\ Done(p, "adminListPuzzles") =>
         /\ Range(req[p].found) = puzzles
         /\ Len(req[p].found) = Cardinality(puzzles)
         /\ Ascending(req[p].found)

\* C14 witness: the player fetch of a stored, inactive level was answered
\* not_found.
C14_Witness ==
  /\ Done(1, "getPuzzle") /\ req[1].status = "not_found"
  /\ \E z \in puzzles : z._id = req[1].puzzleId /\ ~z.isActive

\* C14 witness of the admin side: the admin get returned an inactive puzzle.
C14_AdminSeesInactive ==
  /\ Done(1, "adminGetPuzzle") /\ req[1].status = "ok"
  /\ \E z \in req[1].puzzle : ~z.isActive

\* C20: a save for an id that is no active level, none stored or an inactive
\* one, is answered not_found and writes no record.
C20_SaveOfHiddenLevelNotFound ==
  \A p \in Procs :
    ( /\ Done(p, "putProgress")
      /\ \A z \in ActiveLevels : z._id # req[p].puzzleId )
    => ( /\ req[p].status = "not_found"
         /\ req[p].progress = {} )

\* A fetch that got past the unlock check, of a level the user holds no
\* record on, answered on the current UTC day.
FetchOfNewLevelToday(p) ==
  /\ Done(p, "getPuzzle") /\ req[p].status \in {"ok", "daily_limit"}
  /\ ProgressOf(req[p].userId, req[p].puzzleId) = {}
  /\ req[p].startOfDay = StartOfDay(now)

\* C15: a fetch by a user whose stored tier is pro is never answered
\* daily_limit; a fetch by a user whose document holds no tier is answered as
\* a free user's: for a level they hold no record on it is denied with
\* daily_limit exactly when they created a record today.
C15_QuotaOnlyForFreeTier ==
  \A p \in Procs :
    /\ (Done(p, "getPuzzle") /\ users[req[p].userId] = "pro") =>
         req[p].status # "daily_limit"
    /\ (FetchOfNewLevelToday(p) /\ users[req[p].userId] = "unset") =>
         ( req[p].status = "daily_limit" <=> CreatedToday(req[p].userId) # {} )

\* C15 witness: a pro user's fetch of a level they hold no record on is
\* allowed although they created a record today.
C15_Witness ==
  /\ Done(1, "getPuzzle") /\ req[1].status = "ok"
  /\ users[req[1].userId] = "pro"
  /\ ProgressOf(req[1].userId, req[1].puzzleId) = {}
  /\ CreatedToday(req[1].userId) # {}

\* C15 witness of the default: a user with no stored tier is denied with
\* daily_limit.
C15_UnsetTierDenied ==
  /\ FetchOfNewLevelToday(1) /\ req[1].status = "daily_limit"
  /\ users[req[1].userId] = "unset"

\* C16: the save that inserts a record stamps its createdAt with the clock
\* that save read, and while a record of a pair stays in the store no step
\* changes its createdAt or its _id: a pair's createdAt differs only after
\* its record was deleted and a later save inserted a new one.
C16_CreatedAtStable ==
  [][/\ \A d \in progress, e \in progress' :
          SamePair(d, e) => (e.createdAt = d.createdAt /\ e._id = d._id)
     /\ \A e \in progress' \ progress :
          (\A d \in progress : ~SamePair(d, e)) =>
            \E p \in Procs :
              /\ req[p].pc = "insert" /\ Answers(p, "putProgress")
              /\ SamePair(req[p], e)
              /\ e.createdAt = req[p].ts]_vars

\* C16 witness: a save updated a record on a later instant than the one the
\* record was created on, and the record it returned is the stored one.
C16_Witness ==
  \E p \in Procs :
    /\ Done(p, "putProgress") /\ req[p].status = "ok"
    /\ req[p].progress \subseteq progress
    /\ \E d \in req[p].progress :
         /\ d.createdAt < req[p].ts
         /\ d.placedPieceIds = req[p].placedPieceIds

\* The distinct piece ids of a list.
DistinctIds(placed) == {placed[i] : i \in 1..Len(placed)}

\* C18: the record a save returns is completed only when the list sent holds
\* at least rows*cols distinct piece ids.
C18_CompletionCountsDistinctIds ==
  \A p \in Procs :
    (Done(p, "putProgress") /\ req[p].status = "ok") =>
      \A d \in req[p].progress, z \in req[p].puzzle :
        d.isCompleted =>
          Cardinality(DistinctIds(req[p].placedPieceIds))
            >= z.gridRows * z.gridCols

\* C19: every stored record is completed exactly when it holds at least
\* rows*cols pieces of its level's grid as the catalog holds it now.
C19_CompletedMatchesCurrentGrid ==
  \A d \in progress, z \in puzzles :
    z._id = d.puzzleId =>
      ( d.isCompleted <=> Len(d.placedPieceIds) >= z.gridRows * z.gridCols )

\* C17: the count check of a fetch answers from the records the store holds
\* at that step, daily_limit exactly when the user has a record created since
\* the start of the day, and no step of a fetch writes a record; nothing
\* orders a save between one fetch's check and another's.
C17_QuotaCheckReadsOnly ==
  [][\A p \in Procs :
       /\ (req[p].pc = "countToday" /\ req'[p].pc = "done") =>
            ( req'[p].status = "daily_limit" <=>
                \E d \in progress :
                  /\ d.userId = req[p].userId
                  /\ d.createdAt >= req[p].startOfDay )
       /\ (req'[p] # req[p] /\ req'[p].kind = "getPuzzle") =>
            progress' = progress]_vars

\* C17 witness: two fetches of one free user for two levels were both
\* allowed by the count check, and two saves each inserted the first record
\* of one of those levels, both created on the current UTC day.
C17_Witness ==
  /\ Done(1, "getPuzzle") /\ Done(2, "getPuzzle")
  /\ req[1].status = "ok" /\ req[2].status = "ok"
  /\ req[1].userId = req[2].userId /\ req[1].puzzleId # req[2].puzzleId
  /\ users[req[1].userId] = "free"
  /\ req[1].progress = {} /\ req[2].progress = {}
  /\ req[1].startOfDay = StartOfDay(now) /\ req[2].startOfDay = StartOfDay(now)
  /\ Done(3, "putProgress") /\ Done(4, "putProgress")
  /\ req[3].status = "ok" /\ req[4].status = "ok"
  /\ SamePair(req[3], req[1]) /\ SamePair(req[4], req[2])
  /\ req[3].progress \cup req[4].progress \subseteq CreatedToday(req[1].userId)
  /\ Cardinality(CreatedToday(req[1].userId)) > DailyLimit

\* C21: in a listing, a level of order n > 1 whose order n-1 level is active
\* is reported unlocked exactly when the user holds a completed record on
\* that predecessor, and every level is reported completed exactly when the
\* user holds a completed record on it.
C21_ListingFollowsPredecessorCompletion ==
  \A p \in Procs :
    Done(p, "listPuzzles") =>
      \A b \in Range(req[p].listing) :
        /\ b.isCompleted <=> HasCompleted(req[p].userId, b.id)
        /\ b.levelOrder > 1 =>
             \A a \in ActiveAt(b.levelOrder - 1) :
               b.isUnlocked <=> HasCompleted(req[p].userId, a._id)

\* C21 witness: the listing reports level 1 completed and level 2 unlocked
\* and not completed, and level 3 locked.
C21_Witness ==
  /\ Done(1, "listPuzzles") /\ Len(req[1].listing) = 3
  /\ req[1].listing[1].levelOrder = 1 /\ req[1].listing[1].isCompleted
  /\ req[1].listing[2].levelOrder = 2 /\ req[1].listing[2].isUnlocked
  /\ ~req[1].listing[2].isCompleted
  /\ req[1].listing[3].levelOrder = 3 /\ ~req[1].listing[3].isUnlocked

\* C22: a listing reports a level unlocked exactly when the unlock check of a
\* fetch of that level, over the same catalog and records, does not answer
\* level_locked.
C22_ListingAgreesWithFetch ==
  \A p \in Procs :
    Done(p, "listPuzzles") =>
      \A b \in Range(req[p].listing) :
        \A z \in ActivePuzzleById(b.id) :
          b.isUnlocked <=> ~FetchLocked(req[p].userId, z)

\* The user holds a record on level z but no completed record on the active
\* level a of the order below z's.
HoldsRecordBehindLock(u, z, a) ==
  /\ z.isActive /\ z.levelOrder > 1
  /\ a.isActive /\ a.levelOrder = z.levelOrder - 1
  /\ ProgressOf(u, z._id) # {}
  /\ ~HasCompleted(u, a._id)

\* C23: whenever the user holds no completed record on the active level of
\* order n-1, a fetch of level n is answered level_locked and a listing
\* reports level n locked, also when the user holds a record on level n; and
\* the reset or save that ends the completion of a level changes that pair's
\* record only, so the user's records on other levels stay as they were.
C23_UnlockRevocable ==
  /\ [](\A p \in Procs : \A z \in puzzles, a \in puzzles :
          HoldsRecordBehindLock(req[p].userId, z, a) =>
            /\ (Done(p, "getPuzzle") /\ req[p].puzzleId = z._id) =>
                 req[p].status = "level_locked"
            /\ Done(p, "listPuzzles") =>
                 \A b \in Range(req[p].listing) :
                   b.id = z._id => ~b.isUnlocked)
  /\ [][\A u \in UserIds, l \in PuzzleIds :
          (HasCompleted(u, l) /\ ~HasCompleted(u, l)') =>
            /\ \E p \in Procs :
                 /\ req'[p].userId = u /\ req'[p].puzzleId = l
                 /\ \/ Answers(p, "deleteProgress")
                    \/ Answers(p, "putProgress") /\ ~FillsGrid(p)
            /\ \A d \in progress :
                 ~(d.userId = u /\ d.puzzleId = l) => d \in progress']_vars

\* C23 witness: the fetch of level 2 is answered level_locked for a user who
\* holds a completed record on level 2 and a record on level 1 that is not
\* completed.
C23_Witness ==
  /\ Done(1, "getPuzzle") /\ req[1].status = "level_locked"
  /\ \E z \in ActiveAt(2) :
       /\ req[1].puzzleId = z._id
       /\ HasCompleted(req[1].userId, z._id)
  /\ \E a \in ActiveAt(1) :
       /\ ProgressOf(req[1].userId, a._id) # {}
       /\ ~HasCompleted(req[1].userId, a._id)

\* C24: once an admin delete of a puzzle has answered, no record references
\* that puzzle.
C24_NoRecordOfDeletedPuzzle ==
  \A p \in Procs :
    (Done(p, "adminDeletePuzzle") /\ req[p].status = "ok") =>
      \A d \in progress : d.puzzleId # req[p].puzzleId

====
